---- MODULE Spec2Model ----
(***************************************************************************)
(* Workflow execution engine of mission-control (src/workflows.py):        *)
(* WorkflowManager with its collection of workflows, the registry of       *)
(* scheduler tasks (_running), and the asyncio tasks that run              *)
(* _execute_workflow.  One action is one run of code between two points    *)
(* where the event loop can switch tasks: start_workflow, cancel_workflow  *)
(* and create_workflow contain no suspending await and run whole; a        *)
(* scheduler task runs from one await to the next.  Tasks follow asyncio of *)
(* Python 3.8 and later, where CancelledError is a BaseException.           *)
(* Of a workflow the model keeps status, steps, timestamps, cursor and log; *)
(* name, description, team and creator take no part in any operation.       *)
(* The read side (progress, to_dict, list_workflows, get_stats) is modelled  *)
(* as operators over that state, progress with the float arithmetic of the  *)
(* code.                                                                    *)
(***************************************************************************)
EXTENDS Integers, Sequences, FiniteSets, TLC

\* ---------------------------------------------------------------- bounds
MaxCalls == 2     \* Spec: start_workflow / cancel_workflow calls that act
MaxRunSteps == 3  \* RunSpec: steps of the one workflow
MaxRunCalls == 5  \* RunSpec: start_workflow / cancel_workflow calls that act
MaxPortSteps == 2 \* PortSpec: steps of the one workflow
MaxPortCalls == 3 \* PortSpec: start_workflow / cancel_workflow calls that act
MaxViewSteps == 50 \* ViewSpec: steps of the one workflow
MaxViewCalls == 1 \* ViewSpec: start_workflow calls that act
MaxQuerySteps == 1 \* QuerySpec: steps of each workflow
MaxQueryCalls == 2 \* QuerySpec: start_workflow / cancel_workflow calls that act
MaxFaultSteps == 2 \* FaultSpec: steps of the one workflow
MaxFaultCalls == 3 \* FaultSpec: start_workflow / cancel_workflow calls that act
MaxFrameSteps == 1 \* FrameSpec: steps of each workflow
MaxFrameCalls == 2 \* FrameSpec: start_workflow / cancel_workflow calls that act
MaxIdWorkflows == 2 \* IdSpec: workflows in the collection when one more is created
MaxIdCalls == 2   \* IdSpec: cancel_workflow calls that act

\* ------------------------------------------------------------ enumerations
WorkflowStatus ==
  [PENDING |-> "pendente", RUNNING |-> "em_andamento", COMPLETED |-> "concluido",
   FAILED |-> "falhou", CANCELLED |-> "cancelado"]

StepStatus ==
  [PENDING |-> "pendente", RUNNING |-> "em_andamento", COMPLETED |-> "concluido",
   FAILED |-> "falhou", SKIPPED |-> "pulado"]

None == 0

Terminal == {WorkflowStatus.COMPLETED, WorkflowStatus.FAILED, WorkflowStatus.CANCELLED}

\* Step names of the predefined templates, in catalog order.
TEMPLATES ==
  ("ci-cd" :> <<"Revisao de Codigo", "Testes Unitarios", "Testes de Integracao", "Deploy">>)
  @@ ("analise-codigo" :> <<"Analise Estatica", "Analise de Seguranca", "Relatorio">>)
  @@ ("suporte" :> <<"Classificacao", "Investigacao", "Escalonamento">>)

\* Template arguments tried by the model: known keys, an unknown key, and
\* "None" for a call without template.
TemplateArgs == {"ci-cd", "suporte", "desconhecido", "None"}

\* Identifiers.  A workflow id is "wf-<time>-<uuid>", a step id a uuid prefix.
WfIds == {1, 2}
UnknownId == 0
\* Readings of datetime.now(), on a coarse clock.
Times == {1, 2}
\* depends_on lists tried for a step added with add_step.  Step ids are
\* positions, so {2} on the first step names a later step, on the second step
\* the step itself, on the third an earlier step, and in a workflow of one
\* step it names no step at all.
DepArgs == {{}, {2}}
\* WorkflowStep stores the depends_on it is given (line 49) and nothing checks
\* that it is a list.  A value that is no container (for instance the number
\* 5) is written as the set holding this mark alone.
NotIterable == -1
\* depends_on values tried where a caller passes a value of the wrong type.
FaultDepArgs == {{}, {NotIterable}}

VARIABLES
  workflows,   \* WorkflowManager.workflows: id -> Workflow
  _running,    \* WorkflowManager._running: id -> index of the task in tasks
  tasks,       \* every asyncio task created by start_workflow, in creation order
  clock,       \* the current reading of datetime.now()
  calls,       \* number of start/cancel calls made
  op           \* the operation that produced the current state, and its result

vars == <<workflows, _running, tasks, clock, calls, op>>

\* ------------------------------------------------------------------ data
WorkflowStep(id, name, depends_on) ==
  [id |-> id, name |-> name, depends_on |-> depends_on,
   status |-> StepStatus.PENDING, started_at |-> None, completed_at |-> None,
   result |-> "None", error |-> "None", subagent_id |-> "None"]

Workflow(now) ==
  [status |-> WorkflowStatus.PENDING, steps |-> <<>>, created_at |-> now,
   started_at |-> None, completed_at |-> None, current_step_index |-> 0,
   logs |-> <<>>]

add_step(wf, step) == [wf EXCEPT !.steps = Append(@, step)]

\* Mutant: the entry is put in front.
add_logFirst(wf, level, message) ==
  [wf EXCEPT !.logs = <<[level |-> level, message |-> message]>> \o @]

\* Workflow.add_log, lines 121-127: the entry is appended.
add_log(wf, level, message) ==
  [wf EXCEPT !.logs = Append(@, [level |-> level, message |-> message])]

Op(name, id, ret, task, ev) ==
  [name |-> name, id |-> id, ret |-> ret, task |-> task, ev |-> ev]


\* ------------------------------------------------- float arithmetic (binary64)
\* A Python float is an IEEE 754 double: a significand of 53 bits.
MantissaBits == 53

\* Natural numbers too wide for the model's integers are sequences of bits,
\* most significant first.  A float is [m, scale] with value m / 2^scale, and
\* m = <<>> for 0.0.
Zeros(k) == [i \in 1..k |-> 0]

\* b + 1: the trailing ones become zeros, the zero before them a one.
Inc(b) ==
  LET zeroAt == {i \in 1..Len(b) : b[i] = 0}
  IN IF zeroAt = {} THEN <<1>> \o Zeros(Len(b))
     ELSE LET last == CHOOSE i \in zeroAt : \A k \in zeroAt : k <= i
          IN [i \in 1..Len(b) |-> IF i < last THEN b[i] ELSE IF i = last THEN 1 ELSE 0]

\* The carry into position i of a + b (equal lengths; 0 is above the first
\* bit): some lower position generates one and every position between passes
\* it on.
CarryInto(a, b, i) ==
  \E j \in (i + 1)..Len(a) :
    /\ a[j] = 1 /\ b[j] = 1
    /\ \A k \in (i + 1)..(j - 1) : a[k] + b[k] = 1

AddBits(a, b) ==
  (IF CarryInto(a, b, 0) THEN <<1>> ELSE <<>>)
  \o [i \in 1..Len(a) |-> (a[i] + b[i] + (IF CarryInto(a, b, i) THEN 1 ELSE 0)) % 2]

Add(a, b) ==
  LET len == IF Len(a) > Len(b) THEN Len(a) ELSE Len(b)
  IN AddBits(Zeros(len - Len(a)) \o a, Zeros(len - Len(b)) \o b)

Shl(b, k) == b \o Zeros(k)

\* 100 = 64 + 32 + 4
Times100(b) == Add(Add(Shl(b, 6), Shl(b, 5)), Shl(b, 2))

RECURSIVE BitsToInt(_)
BitsToInt(b) ==
  IF b = <<>> THEN 0 ELSE 2 * BitsToInt(SubSeq(b, 1, Len(b) - 1)) + b[Len(b)]

\* Rounding to nearest, ties to even, of the exact value b (leading bit 1)
\* plus, when sticky, a non-zero part below its last bit: the significand kept
\* and the number of bits dropped.
RoundNearestEven(b, sticky) ==
  IF Len(b) <= MantissaBits THEN [m |-> b, dropped |-> 0]
  ELSE LET kept == SubSeq(b, 1, MantissaBits)
           guard == b[MantissaBits + 1]
           rest == sticky \/ \E i \in (MantissaBits + 2)..Len(b) : b[i] = 1
           up == guard = 1 /\ (rest \/ kept[MantissaBits] = 1)
       IN [m |-> IF up THEN Inc(kept) ELSE kept, dropped |-> Len(b) - MantissaBits]

RECURSIVE Pow2Mod(_, _)
Pow2Mod(k, n) == IF k = 0 THEN 1 % n ELSE (2 * Pow2Mod(k - 1, n)) % n

\* What is left of the dividend rem (rem < n) after k bits of rem / n.
RemAfter(rem, n, k) == (rem * Pow2Mod(k, n)) % n

\* The next k bits of the binary expansion of rem / n (rem < n), and what is
\* left of the dividend.
QuotientBits(rem, n, k) ==
  [bits |-> [i \in 1..k |-> IF 2 * RemAfter(rem, n, i - 1) >= n THEN 1 ELSE 0],
   rem |-> RemAfter(rem, n, k)]

\* The least e with c * 2^e >= n, for 0 < c <= n.
RECURSIVE LeadingExp(_, _)
LeadingExp(c, n) == IF c >= n THEN 0 ELSE 1 + LeadingExp(2 * c, n)

RECURSIVE Pow2(_)
Pow2(e) == IF e = 0 THEN 1 ELSE 2 * Pow2(e - 1)

\* c / n of two ints, 0 <= c <= n, 0 < n: the correctly rounded quotient.
TrueDiv(c, n) ==
  IF c = 0 THEN [m |-> <<>>, scale |-> 0]
  ELSE LET e == LeadingExp(c, n)
           q == QuotientBits(c * Pow2(e) - n, n, MantissaBits)
           r == RoundNearestEven(<<1>> \o q.bits, q.rem # 0)
       IN [m |-> r.m, scale |-> e + MantissaBits - r.dropped]

\* f * 100: the exact product, rounded.
FloatTimes100(f) ==
  IF f.m = <<>> THEN f
  ELSE LET r == RoundNearestEven(Times100(f.m), FALSE)
       IN [m |-> r.m, scale |-> f.scale - r.dropped]

\* int(f): the fraction is cut off.
TruncToInt(f) ==
  IF Len(f.m) <= f.scale THEN 0 ELSE BitsToInt(SubSeq(f.m, 1, Len(f.m) - f.scale))

\* ------------------------------------------------------------------ views
\* Mutant: the ratio is not scaled to a percentage.
progressUnscaled(wf) ==
  IF Len(wf.steps) = 0 THEN 0
  ELSE LET completed == Cardinality({i \in 1..Len(wf.steps) :
                                       wf.steps[i].status = StepStatus.COMPLETED})
       IN TruncToInt(TrueDiv(completed, Len(wf.steps)))

\* Workflow.progress, lines 97-103: int((completed / len(self.steps)) * 100).
progress(wf) ==
  IF Len(wf.steps) = 0 THEN 0
  ELSE LET completed == Cardinality({i \in 1..Len(wf.steps) :
                                       wf.steps[i].status = StepStatus.COMPLETED})
       IN TruncToInt(FloatTimes100(TrueDiv(completed, Len(wf.steps))))

\* Number of log entries to_dict exposes (line 143).
LogWindow == 20

\* Mutant: the first entries are exposed.
LastLogsFirst(logs) == SubSeq(logs, 1, IF Len(logs) < LogWindow THEN Len(logs) ELSE LogWindow)

\* self.logs[-20:], line 143: a start before the list's beginning is its
\* beginning.
LastLogs(logs) ==
  SubSeq(logs, (IF Len(logs) > LogWindow THEN Len(logs) - LogWindow ELSE 0) + 1, Len(logs))

\* Workflow.to_dict, lines 129-144, without name, description, team, duration.
to_dict(wf) ==
  [status |-> wf.status, progress |-> progress(wf), created_at |-> wf.created_at,
   started_at |-> wf.started_at, completed_at |-> wf.completed_at,
   steps |-> wf.steps, current_step |-> wf.current_step_index,
   logs |-> LastLogs(wf.logs)]

\* ------------------------------------------------------- scheduler helpers
\* _execute_workflow, lines 315-318: the steps of the workflow whose id is in
\* step.depends_on and whose status is not COMPLETED.
pending_deps(wf, i) ==
  {j \in 1..Len(wf.steps) :
     /\ wf.steps[j].id \in wf.steps[i].depends_on
     /\ wf.steps[j].status # StepStatus.COMPLETED}

\* Mutant: a step with unmet dependencies is marked skipped.
SkipStepMarksSkipped(wf, i) ==
  add_log([wf EXCEPT !.steps[i].status = StepStatus.SKIPPED],
          "warning", <<"aguardando dependencias", wf.steps[i].name>>)

\* lines 320-322: the step waits, a warning is logged, the loop continues.
SkipStep(wf, i) ==
  add_log([wf EXCEPT !.steps[i].status = StepStatus.PENDING],
          "warning", <<"aguardando dependencias", wf.steps[i].name>>)

\* lines 325-327: the step is started.
BeginStep(wf, i, now) ==
  add_log([wf EXCEPT !.steps[i].status = StepStatus.RUNNING,
                     !.steps[i].started_at = now],
          "info", <<"iniciada", wf.steps[i].name>>)

\* Mutant: the returned id is dropped.
RecordSubagentDropped(wf, i) == wf

\* line 337: the id returned by create_subagent is recorded.
RecordSubagent(wf, i) == [wf EXCEPT !.steps[i].subagent_id = "subagent"]

\* Mutant: the settled step keeps its status.
CompleteStepKeepsStatus(wf, i, now) ==
  add_log([wf EXCEPT !.steps[i].completed_at = now,
                     !.steps[i].result = "Concluido com sucesso"],
          "success", <<"concluida", wf.steps[i].name>>)

\* lines 345-348: the step settled.
CompleteStep(wf, i, now) ==
  add_log([wf EXCEPT !.steps[i].status = StepStatus.COMPLETED,
                     !.steps[i].completed_at = now,
                     !.steps[i].result = "Concluido com sucesso"],
          "success", <<"concluida", wf.steps[i].name>>)

\* Mutant: the failure is not logged.
FailStepSilently(wf, i) ==
  [wf EXCEPT !.steps[i].status = StepStatus.FAILED, !.steps[i].error = "erro",
             !.status = WorkflowStatus.FAILED]

\* lines 350-356: dispatch or settle raised an Exception.
FailStep(wf, i) ==
  [add_log([wf EXCEPT !.steps[i].status = StepStatus.FAILED,
                      !.steps[i].error = "erro"],
           "error", <<"falhou", wf.steps[i].name>>)
     EXCEPT !.status = WorkflowStatus.FAILED]

\* Mutant: the status is not set at the end of the loop.
FinalizeKeepsStatus(wf, now) == [wf EXCEPT !.completed_at = now]

\* lines 359-364: the loop is over (exhausted or left by break).
Finalize(wf, now) ==
  LET w1 == IF wf.status # WorkflowStatus.FAILED
            THEN add_log([wf EXCEPT !.status = WorkflowStatus.COMPLETED],
                         "success", <<"Workflow concluido com sucesso">>)
            ELSE wf
  IN [w1 EXCEPT !.completed_at = now]

\* lines 366-369: an Exception left the loop outside the inner try statement.
\* The status is forced to FAILED and the error is logged; completed_at is not
\* assigned.
OuterFailure(wf) ==
  add_log([wf EXCEPT !.status = WorkflowStatus.FAILED], "error", <<"Erro na execucao">>)

\* What a run of the loop body reports: the workflow as left, where the task
\* now stands (pc), the index it stands at, and the indices it skipped.
Segment(wf, pc, idx, skipped) == [wf |-> wf, pc |-> pc, idx |-> idx, skipped |-> skipped]

\* lines 311-357 from index i up to the next await that suspends, or to the end.
\* client: whether a dispatch port was given.  With one, the task suspends in
\* create_subagent (the gateway round trip); without, in the settle wait.
RECURSIVE RunLoop(_, _, _, _, _)
RunLoop(wf, i, now, client, skipped) ==
  IF i > Len(wf.steps)
  THEN Segment(Finalize(wf, now), "done", i, skipped)
  ELSE LET w0 == [wf EXCEPT !.current_step_index = i - 1]
       IN IF NotIterable \in w0.steps[i].depends_on
          \* line 317: "s.id in step.depends_on" raises TypeError
          THEN Segment(OuterFailure(w0), "done", i, skipped)
          ELSE IF pending_deps(w0, i) # {}
          THEN RunLoop(SkipStep(w0, i), i + 1, now, client, skipped \cup {i})
          ELSE Segment(BeginStep(w0, i, now), IF client THEN "dispatch" ELSE "sleep",
                       i, skipped)

\* Mutant: after a failure the loop goes on with the next step.
AfterFailureContinues(wf, i, now, skipped) == RunLoop(wf, i + 1, now, TRUE, skipped)

\* After a failure the loop is left (break, line 357) and the run is finalized.
AfterFailure(wf, i, now, skipped) == Segment(Finalize(wf, now), "done", i, skipped)

\* Mutant: the whole registry is emptied.
PopRunningClears(reg, id) == <<>>

\* Mutant: the entry is never removed.
PopRunningKeeps(reg, id) == reg

\* line 372: finally, self._running.pop(workflow.id, None)
PopRunning(reg, id) == [k \in DOMAIN reg \ {id} |-> reg[k]]


\* --------------------------------------------------------------- manager
TypeOK ==
  /\ DOMAIN workflows \subseteq WfIds
  /\ DOMAIN _running \subseteq DOMAIN workflows
  /\ \A id \in DOMAIN _running : _running[id] \in 1..Len(tasks)
  /\ clock \in Times
  /\ calls \in Nat

Init ==
  /\ workflows = <<>>
  /\ _running = <<>>
  /\ tasks = <<>>
  /\ clock = 1
  /\ calls = 0
  /\ op = Op("init", UnknownId, FALSE, 0, "none")

\* Mutant: any stored workflow answers for an id that is not stored.
get_workflowAny(id) == {workflows[k] : k \in DOMAIN workflows}

\* get_workflow, lines 267-269: an Optional[Workflow], here as a set: the
\* workflow stored under id, or the empty set for None.
get_workflow(id) == {workflows[k] : k \in DOMAIN workflows \cap {id}}

\* Mutant: an unknown key is seeded like "suporte".
SeedStepsWithDefault(template) ==
  LET key == IF template \in DOMAIN TEMPLATES THEN template ELSE "suporte"
  IN [i \in 1..Len(TEMPLATES[key]) |-> WorkflowStep(i, TEMPLATES[key][i], {})]

\* create_workflow, lines 245-259: a new Workflow, seeded from the template
\* when the key is one of TEMPLATES.
SeedSteps(template) ==
  IF template # "None" /\ template \in DOMAIN TEMPLATES
  THEN [i \in 1..Len(TEMPLATES[template]) |-> WorkflowStep(i, TEMPLATES[template][i], {})]
  ELSE <<>>

\* The id given to a new workflow when the constructor draws one that no
\* stored workflow has.
NewWorkflowId == CHOOSE id \in WfIds : id \notin DOMAIN workflows

\* Workflow.__init__, line 84: the id is the creation time to the second and
\* the first four hex digits of a uuid4, 16 random bits.
SuffixBits == 16
\* uuid4 prefixes tried: the smallest and the largest.
Suffixes == {0, 2^SuffixBits - 1}
WorkflowId(now, suffix) == now * 2^SuffixBits + suffix

\* create_workflow, lines 245-265, for a workflow constructed with this id:
\* line 261 assigns self.workflows[workflow.id].
\* now: the reading of datetime.now(), not before the previous reading.  The
\* clock is coarse; the model lets it advance between two creations only.
StoreWorkflow(id, template, now) ==
  /\ now \in Times
  /\ now >= clock
  /\ clock' = now
  /\ LET wf == [Workflow(now) EXCEPT !.steps = SeedSteps(template)]
     IN /\ workflows' = [k \in DOMAIN workflows \cup {id} |->
                           IF k = id THEN add_log(wf, "info", <<"criado">>)
                           ELSE workflows[k]]
        /\ op' = Op("create", id, TRUE, 0, template)
  /\ UNCHANGED <<_running, tasks, calls>>

\* create_workflow where the ids drawn differ from one another.
create_workflow(template, now) ==
  /\ DOMAIN workflows # WfIds
  /\ StoreWorkflow(NewWorkflowId, template, now)

\* create_workflow with the id as line 84 builds it.
CreateWithId(template, now, suffix) ==
  StoreWorkflow(WorkflowId(now, suffix), template, now)

\* Workflow.add_step on a stored workflow that has not been started yet, with a
\* step constructed by the caller.
AddStep(id, depends_on) ==
  /\ id \in DOMAIN workflows
  /\ workflows[id].status = WorkflowStatus.PENDING
  /\ LET n == Len(workflows[id].steps) + 1
     IN workflows' = [workflows EXCEPT ![id] = add_step(@, WorkflowStep(n, "etapa", depends_on))]
  /\ op' = Op("add_step", id, TRUE, 0, "none")
  /\ UNCHANGED <<_running, tasks, clock, calls>>

\* Mutant: the check is missing.
AlreadyRunningNever(wf) == FALSE

\* start_workflow, line 293: a workflow that is RUNNING is not started again.
AlreadyRunning(wf) == wf.status = WorkflowStatus.RUNNING

\* Mutant: the start is not logged.
MarkStartedSilently(wf, now) ==
  [wf EXCEPT !.status = WorkflowStatus.RUNNING, !.started_at = now]

\* start_workflow, lines 297-299.
MarkStarted(wf, now) ==
  add_log([wf EXCEPT !.status = WorkflowStatus.RUNNING, !.started_at = now],
          "info", <<"Workflow iniciado">>)

\* A task as asyncio.create_task leaves it: created, its coroutine not yet run.
NewTask(id, client) ==
  [wf |-> id, pc |-> "new", idx |-> 0, cancelled |-> FALSE, client |-> client,
   skipped |-> {}]

\* start_workflow, lines 289-306.
start_workflow(id, client) ==
  /\ IF id \notin DOMAIN workflows
     THEN /\ op' = Op("start", id, FALSE, 0, "not found")
          /\ UNCHANGED <<workflows, _running, tasks, calls>>
     ELSE IF AlreadyRunning(workflows[id])
     THEN /\ op' = Op("start", id, FALSE, 0, "running")
          /\ UNCHANGED <<workflows, _running, tasks, calls>>
     ELSE /\ calls' = calls + 1
          /\ workflows' = [workflows EXCEPT ![id] = MarkStarted(@, clock)]
          /\ tasks' = Append(tasks, NewTask(id, client))
          /\ _running' = [k \in DOMAIN _running \cup {id} |->
                            IF k = id THEN Len(tasks) + 1 ELSE _running[k]]
          /\ op' = Op("start", id, TRUE, Len(tasks) + 1, "spawned")
  /\ UNCHANGED clock

\* Task.cancel(): a task that has not finished is marked; at its next step the
\* event loop throws CancelledError into its coroutine.
TaskCancel(ts, t) ==
  IF ts[t].pc # "done" THEN [ts EXCEPT ![t].cancelled = TRUE] ELSE ts

\* Mutant: only a workflow that is RUNNING is cancelled.
MarkCancelledIfRunning(wf, now) ==
  IF wf.status = WorkflowStatus.RUNNING
  THEN add_log([wf EXCEPT !.status = WorkflowStatus.CANCELLED, !.completed_at = now],
               "warning", <<"Workflow cancelado pelo usuario">>)
  ELSE wf

\* Mutant: the steps under way are put back to pending.
MarkCancelledRollsBack(wf, now) ==
  add_log([wf EXCEPT !.status = WorkflowStatus.CANCELLED, !.completed_at = now,
                     !.steps = [i \in 1..Len(wf.steps) |->
                                  IF wf.steps[i].status = StepStatus.RUNNING
                                  THEN [wf.steps[i] EXCEPT !.status = StepStatus.PENDING,
                                                           !.started_at = None]
                                  ELSE wf.steps[i]]],
          "warning", <<"Workflow cancelado pelo usuario">>)

\* cancel_workflow, lines 385-387.
MarkCancelled(wf, now) ==
  add_log([wf EXCEPT !.status = WorkflowStatus.CANCELLED, !.completed_at = now],
          "warning", <<"Workflow cancelado pelo usuario">>)

\* cancel_workflow, lines 376-389.
cancel_workflow(id) ==
  /\ IF id \notin DOMAIN workflows
     THEN /\ op' = Op("cancel", id, FALSE, 0, "not found")
          /\ UNCHANGED <<workflows, _running, tasks, calls>>
     ELSE /\ calls' = calls + 1
          /\ IF id \in DOMAIN _running
             THEN /\ tasks' = TaskCancel(tasks, _running[id])
                  /\ _running' = PopRunning(_running, id)
             ELSE UNCHANGED <<tasks, _running>>
          /\ workflows' = [workflows EXCEPT ![id] = MarkCancelled(@, clock)]
          /\ op' = Op("cancel", id, TRUE, 0, "cancelled")
  /\ UNCHANGED clock

\* ------------------------------------------------------------- scheduler
\* The task's state and the shared state after a segment of _execute_workflow.
\* A segment that reaches the end of the coroutine runs the finally clause.
Commit(t, seg, ev) ==
  LET id == tasks[t].wf
  IN /\ workflows' = [workflows EXCEPT ![id] = seg.wf]
     /\ tasks' = [tasks EXCEPT ![t].pc = seg.pc, ![t].idx = seg.idx,
                               ![t].skipped = @ \cup seg.skipped]
     /\ _running' = IF seg.pc = "done" THEN PopRunning(_running, id) ELSE _running
     /\ op' = Op("sched", id, TRUE, t, ev)

\* CancelledError is thrown into the coroutine.  It is no Exception: neither
\* except clause catches it.  Thrown into a coroutine that has not started, it
\* ends it before the try statement is entered; thrown at an await inside the
\* try statement, only the finally clause runs.
TaskKilled(t) ==
  /\ tasks[t].pc # "done"
  /\ tasks[t].cancelled
  /\ tasks' = [tasks EXCEPT ![t].pc = "done"]
  /\ _running' = IF tasks[t].pc = "new" THEN _running
                 ELSE PopRunning(_running, tasks[t].wf)
  /\ op' = Op("sched", tasks[t].wf, TRUE, t, "killed")
  /\ UNCHANGED <<workflows, clock, calls>>

\* First step of the task: the coroutine runs from its first line.
TaskBegin(t) ==
  /\ tasks[t].pc = "new"
  /\ ~tasks[t].cancelled
  /\ Commit(t, RunLoop(workflows[tasks[t].wf], 1, clock, tasks[t].client, {}), "ok")
  /\ UNCHANGED <<clock, calls>>

\* create_subagent returns after having suspended: line 337, then the settle
\* wait of line 340 suspends.
DispatchReturns(t) ==
  /\ tasks[t].pc = "dispatch"
  /\ ~tasks[t].cancelled
  /\ Commit(t, Segment(RecordSubagent(workflows[tasks[t].wf], tasks[t].idx),
                       "sleep", tasks[t].idx, {}), "ok")
  /\ UNCHANGED <<clock, calls>>

\* create_subagent raises after having suspended: lines 350-357, 360-372.
DispatchRaises(t) ==
  /\ tasks[t].pc = "dispatch"
  /\ ~tasks[t].cancelled
  /\ Commit(t, AfterFailure(FailStep(workflows[tasks[t].wf], tasks[t].idx),
                            tasks[t].idx, clock, {}), "raise")
  /\ UNCHANGED <<clock, calls>>

\* The settle wait is over: lines 345-348, then the loop goes on.
Settled(t) ==
  /\ tasks[t].pc = "sleep"
  /\ ~tasks[t].cancelled
  /\ Commit(t, RunLoop(CompleteStep(workflows[tasks[t].wf], tasks[t].idx, clock),
                        tasks[t].idx + 1, clock, tasks[t].client, {}), "ok")
  /\ UNCHANGED <<clock, calls>>

\* A step of task t when no dispatch port is in use.
SimTaskStep(t) ==
  \/ TaskKilled(t)
  \/ TaskBegin(t)
  \/ Settled(t)

TaskStep(t) ==
  \/ SimTaskStep(t)
  \/ DispatchReturns(t)
  \/ DispatchRaises(t)

Next ==
  \/ \E template \in TemplateArgs, now \in Times : create_workflow(template, now)
  \/ \E id \in WfIds \cup {UnknownId}, client \in BOOLEAN :
       calls < MaxCalls /\ start_workflow(id, client)
  \/ \E id \in WfIds \cup {UnknownId} : calls < MaxCalls /\ cancel_workflow(id)
  \/ \E t \in 1..Len(tasks) : TaskStep(t)

\* The manager as src/api.py drives it: workflows come from create_workflow
\* alone, are started with or without a dispatch port, and are cancelled.
Spec == Init /\ [][Next]_vars

\* The manager as a library: one workflow built with add_step, run in
\* simulation mode (no dispatch port), started and cancelled repeatedly.
RunNext ==
  \/ workflows = <<>> /\ create_workflow("None", clock)
  \/ \E deps \in DepArgs :
       /\ 1 \in DOMAIN workflows
       /\ Len(workflows[1].steps) < MaxRunSteps
       /\ AddStep(1, deps)
  \/ calls < MaxRunCalls /\ start_workflow(1, FALSE)
  \/ calls < MaxRunCalls /\ cancel_workflow(1)
  \/ \E t \in 1..Len(tasks) : SimTaskStep(t)

RunSpec == Init /\ [][RunNext]_vars

\* One workflow built with add_step, started with or without a dispatch port.
PortNext ==
  \/ workflows = <<>> /\ create_workflow("None", clock)
  \/ \E deps \in DepArgs :
       /\ 1 \in DOMAIN workflows
       /\ Len(workflows[1].steps) < MaxPortSteps
       /\ AddStep(1, deps)
  \/ \E client \in BOOLEAN : calls < MaxPortCalls /\ start_workflow(1, client)
  \/ calls < MaxPortCalls /\ cancel_workflow(1)
  \/ \E t \in 1..Len(tasks) : TaskStep(t)

PortSpec == Init /\ [][PortNext]_vars

\* One workflow built with add_step by a caller that may pass a depends_on of
\* the wrong type.
FaultNext ==
  \/ workflows = <<>> /\ create_workflow("None", clock)
  \/ \E deps \in FaultDepArgs :
       /\ 1 \in DOMAIN workflows
       /\ Len(workflows[1].steps) < MaxFaultSteps
       /\ AddStep(1, deps)
  \/ \E client \in BOOLEAN : calls < MaxFaultCalls /\ start_workflow(1, client)
  \/ calls < MaxFaultCalls /\ cancel_workflow(1)
  \/ \E t \in 1..Len(tasks) : TaskStep(t)

FaultSpec == Init /\ [][FaultNext]_vars

\* list(self.workflows.values()): the workflows in the order of their
\* creation, which is the order in which the model gives out ids.
Values ==
  LET ids == DOMAIN workflows
      RECURSIVE Ascending(_)
      Ascending(rest) ==
        IF rest = {} THEN <<>>
        ELSE LET least == CHOOSE a \in rest : \A b \in rest : a <= b
             IN <<least>> \o Ascending(rest \ {least})
  IN Ascending(ids)

\* Status filters tried: each status, and "None" for no filter.
StatusArgs ==
  {WorkflowStatus.PENDING, WorkflowStatus.RUNNING, WorkflowStatus.COMPLETED,
   WorkflowStatus.FAILED, WorkflowStatus.CANCELLED, "None"}

\* Limits tried: below, at and (with one workflow stored) above the number
\* of workflows, and a negative one (the endpoint passes the query parameter on as it comes).
LimitArgs == {-1, 0, 1, 2}

\* line 280: [w for w in workflows if w.status == status]
FilterStatus(ids, status) == SelectSeq(ids, LAMBDA id : workflows[id].status = status)

\* Mutant: oldest first.
SortNewestFirstAscending(ids) ==
  LET RECURSIVE Sorted(_)
      Sorted(rest) ==
        IF rest = <<>> THEN <<>>
        ELSE LET front == Sorted(SubSeq(rest, 1, Len(rest) - 1))
                 x == rest[Len(rest)]
                 k == Cardinality({i \in 1..Len(front) :
                        workflows[front[i]].created_at <= workflows[x].created_at})
             IN SubSeq(front, 1, k) \o <<x>> \o SubSeq(front, k + 1, Len(front))
  IN Sorted(ids)

\* line 283: workflows.sort(key=lambda w: w.created_at, reverse=True), a stable
\* sort: of two workflows with the same created_at the one that was first in
\* the list stays first.
SortNewestFirst(ids) ==
  LET RECURSIVE Sorted(_)
      Sorted(rest) ==
        IF rest = <<>> THEN <<>>
        ELSE LET front == Sorted(SubSeq(rest, 1, Len(rest) - 1))
                 x == rest[Len(rest)]
                 k == Cardinality({i \in 1..Len(front) :
                        workflows[front[i]].created_at >= workflows[x].created_at})
             IN SubSeq(front, 1, k) \o <<x>> \o SubSeq(front, k + 1, Len(front))
  IN Sorted(ids)

\* line 285: workflows[:limit]; a negative limit counts from the end.
Truncate(ids, limit) ==
  LET stop == IF limit >= 0 THEN limit ELSE Len(ids) + limit
  IN SubSeq(ids, 1, IF stop > Len(ids) THEN Len(ids) ELSE IF stop < 0 THEN 0 ELSE stop)

\* list_workflows, lines 271-285: the workflows returned, by id.
list_workflows(status, limit) ==
  Truncate(SortNewestFirst(IF status # "None" THEN FilterStatus(Values, status) ELSE Values),
           limit)

ListWorkflows(status, limit) ==
  /\ op' = Op("list", UnknownId, list_workflows(status, limit), 0,
              [status |-> status, limit |-> limit])
  /\ UNCHANGED <<workflows, _running, tasks, clock, calls>>

CountStatus(status) == Cardinality({id \in DOMAIN workflows : workflows[id].status = status})

\* Mutant: cancelled workflows are counted as failed.
get_statsCancelledAsFailed ==
  [total |-> Cardinality(DOMAIN workflows),
   pending |-> CountStatus(WorkflowStatus.PENDING),
   running |-> CountStatus(WorkflowStatus.RUNNING),
   completed |-> CountStatus(WorkflowStatus.COMPLETED),
   failed |-> CountStatus(WorkflowStatus.FAILED) + CountStatus(WorkflowStatus.CANCELLED),
   cancelled |-> CountStatus(WorkflowStatus.CANCELLED)]

\* get_stats, lines 403-414.
get_stats ==
  [total |-> Cardinality(DOMAIN workflows),
   pending |-> CountStatus(WorkflowStatus.PENDING),
   running |-> CountStatus(WorkflowStatus.RUNNING),
   completed |-> CountStatus(WorkflowStatus.COMPLETED),
   failed |-> CountStatus(WorkflowStatus.FAILED),
   cancelled |-> CountStatus(WorkflowStatus.CANCELLED)]

GetStats ==
  /\ op' = Op("stats", UnknownId, get_stats, 0, "none")
  /\ UNCHANGED <<workflows, _running, tasks, clock, calls>>

\* Two workflows of at most one step each, started with a dispatch port,
\* cancelled and run, with the collection listed and counted at every point.
\* A query changes nothing, so a query that follows a query would see what the
\* first one saw: the model asks one at a time.
QueryNext ==
  \/ \E now \in Times : create_workflow("None", now)
  \/ \E id \in WfIds :
       /\ id \in DOMAIN workflows
       /\ Len(workflows[id].steps) < MaxQuerySteps
       /\ AddStep(id, {})
  \/ \E id \in WfIds : calls < MaxQueryCalls /\ start_workflow(id, TRUE)
  \/ \E id \in WfIds : calls < MaxQueryCalls /\ cancel_workflow(id)
  \/ \E t \in 1..Len(tasks) : TaskStep(t)
  \/ \E status \in StatusArgs, limit \in LimitArgs :
       op.name \notin {"list", "stats"} /\ ListWorkflows(status, limit)
  \/ op.name \notin {"list", "stats"} /\ GetStats

QuerySpec == Init /\ [][QueryNext]_vars

\* GET of one workflow (src/api.py): the stored workflow's to_dict.
ReadWorkflow(id) ==
  /\ id \in DOMAIN workflows
  /\ op' = Op("to_dict", id, to_dict(workflows[id]), 0, "none")
  /\ UNCHANGED <<workflows, _running, tasks, clock, calls>>

\* WorkflowManager.get_workflow as a call of its own.
GetWorkflow(id) ==
  /\ op' = Op("get", id, get_workflow(id), 0, "none")
  /\ UNCHANGED <<workflows, _running, tasks, clock, calls>>

\* The keys of TEMPLATES in the order of the dict.
TemplateKeys == <<"ci-cd", "analise-codigo", "suporte">>

\* get_templates, lines 391-401: one entry per template, in catalog order.
get_templates ==
  [i \in 1..Len(TemplateKeys) |->
     [id |-> TemplateKeys[i], steps_count |-> Len(TEMPLATES[TemplateKeys[i]])]]

GetTemplates ==
  /\ op' = Op("templates", UnknownId, get_templates, 0, "none")
  /\ UNCHANGED <<workflows, _running, tasks, clock, calls>>

\* Every operation of the manager on two workflows of at most one step each,
\* one query at a time.
FrameNext ==
  \/ \E now \in Times : create_workflow("None", now)
  \/ \E id \in WfIds :
       /\ id \in DOMAIN workflows
       /\ Len(workflows[id].steps) < MaxFrameSteps
       /\ AddStep(id, {})
  \/ \E id \in WfIds : calls < MaxFrameCalls /\ start_workflow(id, TRUE)
  \/ \E id \in WfIds : calls < MaxFrameCalls /\ cancel_workflow(id)
  \/ \E t \in 1..Len(tasks) : TaskStep(t)
  \/ \E id \in WfIds \cup {UnknownId} :
       op.name \notin {"get", "list", "stats", "templates"} /\ GetWorkflow(id)
  \/ \E status \in {"None", WorkflowStatus.RUNNING} :
       op.name \notin {"get", "list", "stats", "templates"} /\ ListWorkflows(status, 2)
  \/ op.name \notin {"get", "list", "stats", "templates"} /\ GetStats
  \/ op.name \notin {"get", "list", "stats", "templates"} /\ GetTemplates

FrameSpec == Init /\ [][FrameNext]_vars

\* The collection with ids built as the constructor builds them: workflows are
\* created, cancelled and looked up.
IdNext ==
  \/ \E template \in {"suporte", "None"}, now \in Times, suffix \in Suffixes :
       /\ Cardinality(DOMAIN workflows) <= MaxIdWorkflows
       /\ CreateWithId(template, now, suffix)
  \/ \E id \in DOMAIN workflows : calls < MaxIdCalls /\ cancel_workflow(id)
  \/ \E id \in DOMAIN workflows \cup {UnknownId} : op.name # "get" /\ GetWorkflow(id)

IdSpec == Init /\ [][IdNext]_vars

\* Template arguments for creation alone: every key of the catalog, an unknown
\* key, the empty string, and "None" for a call without template.
AllTemplateArgs == DOMAIN TEMPLATES \cup {"desconhecido", "", "None"}

\* The collection as it fills: workflows are created and read back.
CreateNext ==
  \/ \E template \in AllTemplateArgs, now \in Times : create_workflow(template, now)
  \/ \E id \in WfIds : ReadWorkflow(id)

CreateSpec == Init /\ [][CreateNext]_vars

\* One long workflow of independent steps, run in simulation mode and read
\* while it runs.
ViewNext ==
  \/ workflows = <<>> /\ create_workflow("None", clock)
  \/ /\ 1 \in DOMAIN workflows
     /\ Len(workflows[1].steps) < MaxViewSteps
     /\ AddStep(1, {})
  \/ calls < MaxViewCalls /\ start_workflow(1, FALSE)
  \/ \E t \in 1..Len(tasks) : TaskBegin(t) \/ Settled(t)
  \/ ReadWorkflow(1)

ViewSpec == Init /\ [][ViewNext]_vars

\* The event loop runs every task that is ready: a created task gets its first
\* step, a sleep ends, a dispatch call returns or raises, a cancelled task is
\* given its CancelledError.  There are no more tasks than calls.
SchedulerStep(t) == t \in 1..Len(tasks) /\ TaskStep(t)

FairPortSpec == PortSpec /\ \A t \in 1..MaxPortCalls : WF_vars(SchedulerStep(t))


\* ============================================================== properties
Live(t) == tasks[t].pc # "done" /\ ~tasks[t].cancelled

LiveTasks(id) == {t \in 1..Len(tasks) : tasks[t].wf = id /\ Live(t)}

\* C1: once a workflow's status is completed, failed or cancelled, no later
\* start_workflow, cancel_workflow or scheduler step changes it.
C1_TerminalStatusIsFinal ==
  [][\A id \in DOMAIN workflows :
       workflows[id].status \in Terminal
         => workflows'[id].status = workflows[id].status]_vars

\* C2: at any time a workflow has at most one scheduler task that can still
\* change it (spawned, not finished, not cancelled).
C2_AtMostOneLiveTask ==
  \A id \in DOMAIN workflows : Cardinality(LiveTasks(id)) <= 1


\* C3: start_workflow on a workflow that is running returns False and changes
\* nothing: not the workflow (status, start timestamp, steps, cursor, log),
\* not the registry, and no task is spawned.
C3_StartOnRunningRejected ==
  [][\A id \in DOMAIN workflows :
       (workflows[id].status = WorkflowStatus.RUNNING
          /\ op'.name = "start" /\ op'.id = id)
         => /\ op'.ret = FALSE
            /\ workflows' = workflows
            /\ _running' = _running
            /\ tasks' = tasks]_vars

\* A start was refused on a running workflow whose scheduler had begun.
C3_Witness ==
  /\ op.name = "start" /\ op.ev = "running" /\ ~op.ret
  /\ op.id \in DOMAIN _running
  /\ tasks[_running[op.id]].pc = "sleep"

\* C4: cancel_workflow returns False for an id not in the collection; for an
\* id in the collection it returns True and leaves the workflow cancelled with
\* its completion timestamp set, whatever its status was.
C4_CancelResult ==
  op.name = "cancel" =>
    IF op.id \in DOMAIN workflows
    THEN /\ op.ret
         /\ workflows[op.id].status = WorkflowStatus.CANCELLED
         /\ workflows[op.id].completed_at # None
    ELSE ~op.ret

HasFailedStep(wf) == \E i \in 1..Len(wf.steps) : wf.steps[i].status = StepStatus.FAILED

\* A workflow that had failed (no handle registered any more) was cancelled.
C4_Witness ==
  /\ op.name = "cancel" /\ op.ret
  /\ HasFailedStep(workflows[op.id])
  /\ workflows[op.id].status = WorkflowStatus.CANCELLED

\* C5: when dispatch or settle of a step raises, the step and the workflow
\* become failed, the run ends, and every later step keeps what it had.
C5_FailureAborts ==
  [][op'.name = "sched" /\ op'.ev = "raise" =>
       LET t == op'.task
           id == op'.id
           i == tasks[t].idx
       IN /\ workflows'[id].steps[i].status = StepStatus.FAILED
          /\ workflows'[id].status = WorkflowStatus.FAILED
          /\ tasks'[t].pc = "done"
          /\ \A j \in (i + 1)..Len(workflows[id].steps) :
               workflows'[id].steps[j] = workflows[id].steps[j]]_vars

\* A dispatch failed in a second run, with a later step still completed from
\* the first run.
C5_Witness ==
  /\ op.name = "sched" /\ op.ev = "raise"
  /\ \E j \in 1..Len(workflows[op.id].steps) :
       /\ j > tasks[op.task].idx
       /\ workflows[op.id].steps[j].status = StepStatus.COMPLETED

\* depends_on of step i is met: every id in it is the id of a completed step.
DepsCompleted(wf, i) ==
  \A d \in wf.steps[i].depends_on :
    \E j \in 1..Len(wf.steps) :
      wf.steps[j].id = d /\ wf.steps[j].status = StepStatus.COMPLETED

\* Task t has just set a step to running (and is suspended right after).
StepBegun(t) ==
  /\ op'.name = "sched" /\ op'.task = t /\ op'.ev = "ok"
  /\ tasks'[t].pc \in {"sleep", "dispatch"}
  /\ tasks[t].pc = "new" \/ tasks'[t].idx # tasks[t].idx

\* C6: a step is set to running only when every id in its depends_on is the
\* id of a completed step of the workflow; an id that matches no step counts
\* as unmet.
C6_RunsOnlyWithDepsCompleted ==
  [][\A t \in 1..Len(tasks) :
       StepBegun(t) => DepsCompleted(workflows'[tasks[t].wf], tasks'[t].idx)]_vars

\* C7: a step skipped for an unmet dependency is not examined again in the
\* run, so it is still pending when the run ends.
C7_SkippedPendingAtEnd ==
  (op.name = "sched" /\ op.ev # "killed" /\ tasks[op.task].pc = "done")
    => \A j \in tasks[op.task].skipped :
         workflows[op.id].steps[j].status = StepStatus.PENDING

\* C8: with the scheduler tasks run fairly and every dispatch call returning
\* or raising, a started workflow eventually reaches a terminal status and
\* eventually has no handle in the registry.
C8_StartedWorkflowEnds ==
  \A id \in WfIds :
    /\ (id \in DOMAIN workflows /\ workflows[id].status = WorkflowStatus.RUNNING)
         ~> (id \in DOMAIN workflows /\ workflows[id].status \in Terminal)
    /\ (id \in DOMAIN _running) ~> (id \notin DOMAIN _running)

\* A workflow started with a dispatch port ran to completed, its handle gone.
C8_Witness ==
  \E t \in 1..Len(tasks) :
    /\ tasks[t].client /\ tasks[t].pc = "done" /\ ~tasks[t].cancelled
    /\ workflows[tasks[t].wf].status = WorkflowStatus.COMPLETED
    /\ Len(workflows[tasks[t].wf].steps) > 0
    /\ tasks[t].wf \notin DOMAIN _running

RunningSteps(wf) == {i \in 1..Len(wf.steps) : wf.steps[i].status = StepStatus.RUNNING}

WasCancelled(wf) ==
  \E k \in 1..Len(wf.logs) : wf.logs[k].message = <<"Workflow cancelado pelo usuario">>

TimesStarted(wf) ==
  Cardinality({k \in 1..Len(wf.logs) : wf.logs[k].message = <<"Workflow iniciado">>})

TasksOf(ts, id) == {<<t, ts[t]>> : t \in {u \in 1..Len(ts) : ts[u].wf = id}}

C11_UnknownIdChangesNothing ==
  [][\A id \in WfIds \cup {UnknownId} :
       (id \notin DOMAIN workflows /\ op'.name \in {"start", "cancel"} /\ op'.id = id)
         => /\ op'.ret = FALSE
            /\ workflows' = workflows
            /\ _running' = _running
            /\ tasks' = tasks
            /\ get_workflow(id)' = {}]_vars

\* A start was refused for an id not yet given to any workflow, while another
\* workflow had a scheduler registered.
C11_Witness ==
  /\ op.name = "start" /\ op.ev = "not found" /\ ~op.ret
  /\ op.id \in WfIds \ DOMAIN workflows
  /\ _running # <<>>

Completed(wf) ==
  Cardinality({i \in 1..Len(wf.steps) : wf.steps[i].status = StepStatus.COMPLETED})

\* C12: for every workflow, progress is an integer in 0..100 equal to
\* floor(100 * c / n), n the number of steps and c the number of completed
\* steps, and 0 when n = 0.
C12_ProgressIsFloor ==
  \A id \in DOMAIN workflows :
    LET wf == workflows[id]
    IN /\ progress(wf) \in 0..100
       /\ progress(wf) = IF Len(wf.steps) = 0 THEN 0
                         ELSE (100 * Completed(wf)) \div Len(wf.steps)

\* C16: the log list to_dict exposes has at most 20 entries and is the last
\* min(20, n) of the workflow's n log entries, in their order.
C16_ExposedLogsAreLast20 ==
  op.name = "to_dict" =>
    LET logs == workflows[op.id].logs
        n == Len(logs)
        out == op.ret.logs
    IN /\ Len(out) <= 20
       /\ Len(out) = IF n < 20 THEN n ELSE 20
       /\ \A i \in 1..Len(out) : out[i] = logs[n - Len(out) + i]

\* A workflow with more than 20 log entries was read, and its first exposed
\* entry differs from its first entry.
C16_Witness ==
  /\ op.name = "to_dict"
  /\ Len(workflows[op.id].logs) > 20
  /\ op.ret.logs[1] # workflows[op.id].logs[1]

\* C13: list_workflows(status, limit) returns only workflows whose status is
\* the filter (all of them without filter), each once, newest created first,
\* and they are the first of that order: no workflow left out is newer than
\* one returned, and for limit >= 0 there are min(limit, matching) of them.
C13_ListFilteredNewestFirst ==
  op.name = "list" =>
    LET out == op.ret
        Matching == {id \in DOMAIN workflows :
                       op.ev.status = "None" \/ workflows[id].status = op.ev.status}
        Returned == {out[i] : i \in 1..Len(out)}
    IN /\ Returned \subseteq Matching
       /\ \A i, j \in 1..Len(out) :
            i < j => /\ out[i] # out[j]
                     /\ workflows[out[i]].created_at >= workflows[out[j]].created_at
       /\ \A id \in Matching \ Returned : \A r \in Returned :
            workflows[r].created_at >= workflows[id].created_at
       /\ op.ev.limit >= 0 =>
            Len(out) = IF op.ev.limit < Cardinality(Matching)
                       THEN op.ev.limit ELSE Cardinality(Matching)

\* Of two running workflows created at different times, the list of running
\* workflows cut at one holds the newer one.
C13_Witness ==
  /\ op.name = "list" /\ op.ev.status = WorkflowStatus.RUNNING /\ op.ev.limit = 1
  /\ DOMAIN workflows = WfIds
  /\ \A id \in WfIds : workflows[id].status = WorkflowStatus.RUNNING
  /\ workflows[1].created_at < workflows[2].created_at
  /\ op.ret = <<2>>

\* C14: the counts of get_stats are the numbers of workflows in each status,
\* total is the number of workflows, and the five counts add up to total.
C14_StatsSumToTotal ==
  op.name = "stats" =>
    LET stats == op.ret
        InStatus(status) ==
          Cardinality({id \in DOMAIN workflows : workflows[id].status = status})
    IN /\ stats.total = Cardinality(DOMAIN workflows)
       /\ stats.pending = InStatus("pendente")
       /\ stats.running = InStatus("em_andamento")
       /\ stats.completed = InStatus("concluido")
       /\ stats.failed = InStatus("falhou")
       /\ stats.cancelled = InStatus("cancelado")
       /\ stats.pending + stats.running + stats.completed + stats.failed
            + stats.cancelled = stats.total

\* The collection was counted with one workflow failed and one cancelled.
C14_Witness ==
  /\ op.name = "stats"
  /\ op.ret.total = 2 /\ op.ret.failed = 1 /\ op.ret.cancelled = 1

StepNames(wf) == [i \in 1..Len(wf.steps) |-> wf.steps[i].name]

\* C15: create_workflow returns a stored workflow in status pending; from
\* "ci-cd" it has the 4 catalog steps in order, from "analise-codigo" and
\* "suporte" their 3 steps in order, every seeded step pending with an empty
\* depends_on; from an unknown or absent key it has no steps.
C15_CreateSeedsFromTemplate ==
  [][op'.name = "create" =>
       LET id == op'.id
           template == op'.ev
       IN /\ op'.ret
          /\ id \in DOMAIN workflows'
          /\ LET wf == workflows'[id]
             IN /\ wf.status = "pendente"
                /\ template = "ci-cd" =>
                     StepNames(wf) = <<"Revisao de Codigo", "Testes Unitarios",
                                       "Testes de Integracao", "Deploy">>
                /\ template = "analise-codigo" =>
                     StepNames(wf) = <<"Analise Estatica", "Analise de Seguranca", "Relatorio">>
                /\ template = "suporte" =>
                     StepNames(wf) = <<"Classificacao", "Investigacao", "Escalonamento">>
                /\ template \notin {"ci-cd", "analise-codigo", "suporte"} => wf.steps = <<>>
                /\ \A i \in 1..Len(wf.steps) :
                     /\ wf.steps[i].status = "pendente"
                     /\ wf.steps[i].depends_on = {}]_vars

\* A workflow was created from an unknown key, without steps, beside one
\* created from "analise-codigo".
C15_Witness ==
  /\ op.name = "create" /\ op.ev = "desconhecido"
  /\ workflows[op.id].steps = <<>>
  /\ \E other \in DOMAIN workflows \ {op.id} : Len(workflows[other].steps) = 3

C18_RemovesOwnHandle ==
  [][\A id \in DOMAIN _running :
       (op'.name = "sched" /\ op'.id = id /\ id \notin DOMAIN _running')
         => _running[id] = op'.task]_vars

\* Position of the last log entry that records a cancellation, 0 if none.
LastCancelAt(wf) ==
  LET at == {k \in 1..Len(wf.logs) : wf.logs[k].message = <<"Workflow cancelado pelo usuario">>}
  IN IF at = {} THEN 0 ELSE CHOOSE k \in at : \A j \in at : j <= k

\* Number of tasks started for the workflow before its last cancellation: one
\* per "started" log entry before it.
StartedBeforeLastCancel(wf) ==
  Cardinality({k \in 1..LastCancelAt(wf) : wf.logs[k].message = <<"Workflow iniciado">>})

\* The rank of task t among the tasks of its workflow, oldest first.
RankOf(t) == Cardinality({u \in 1..t : tasks[u].wf = tasks[t].wf})

\* C19: after cancel_workflow returned True, no scheduler task started before
\* that cancel changes the workflow's status, its completion timestamp or its
\* steps.
C19_NoChangeByTasksOlderThanCancel ==
  [][\A t \in 1..Len(tasks) :
       (op'.name = "sched" /\ op'.task = t
          /\ RankOf(t) <= StartedBeforeLastCancel(workflows[tasks[t].wf]))
         => LET id == tasks[t].wf
            IN /\ workflows'[id].status = workflows[id].status
               /\ workflows'[id].completed_at = workflows[id].completed_at
               /\ workflows'[id].steps = workflows[id].steps]_vars

\* C20: a successful start_workflow sets the status to running, records the
\* start timestamp, appends one info log entry, registers one new scheduler
\* handle for the id and returns True before the scheduler has examined any
\* step: the steps are as they were before the call.
C20_StartEffects ==
  [][(op'.name = "start" /\ op'.ret) =>
       LET id == op'.id
           before == workflows[id]
           after == workflows'[id]
           new == Len(tasks) + 1
       IN /\ after.status = WorkflowStatus.RUNNING
          /\ after.started_at = clock' /\ after.started_at # None
          /\ Len(after.logs) = Len(before.logs) + 1
          /\ SubSeq(after.logs, 1, Len(before.logs)) = before.logs
          /\ after.logs[Len(after.logs)].level = "info"
          /\ after.steps = before.steps
          /\ after.current_step_index = before.current_step_index
          /\ Len(tasks') = new
          /\ SubSeq(tasks', 1, Len(tasks)) = tasks
          /\ tasks'[new].wf = id /\ tasks'[new].pc = "new"
          /\ id \in DOMAIN _running' /\ _running'[id] = new]_vars

\* A cancelled workflow with an abandoned running step was started again: the
\* new task has not run yet and the step is as it was left.
C20_Witness ==
  /\ op.name = "start" /\ op.ret
  /\ tasks[op.task].pc = "new"
  /\ RunningSteps(workflows[op.id]) # {}
  /\ WasCancelled(workflows[op.id])

\* What C21 says of one scheduler step of task t, but for the remote-task id
\* in a run without dispatch port: create_subagent is in flight (pc
\* "dispatch") only for a task with a port, right after it set the step to
\* running, never for a skipped step; every step such a task sets to running
\* gets its call; when the call returns the id is recorded on that step, which
\* is completed only afterwards; when it raises the task ends (no retry); a
\* task without port never makes the call.
DispatchDiscipline(t) ==
  LET id == tasks[t].wf
      i == tasks'[t].idx
  IN /\ tasks'[t].pc = "dispatch"
          => /\ tasks[t].client /\ StepBegun(t)
             /\ workflows'[id].steps[i].status = StepStatus.RUNNING
             /\ i \notin tasks'[t].skipped
     /\ (StepBegun(t) /\ tasks[t].client) => tasks'[t].pc = "dispatch"
     /\ (tasks[t].pc = "dispatch" /\ op'.ev = "ok")
          => /\ tasks'[t].pc = "sleep" /\ i = tasks[t].idx
             /\ workflows'[id].steps[i].subagent_id # "None"
             /\ workflows'[id].steps[i].status = workflows[id].steps[i].status
     /\ (tasks[t].pc = "dispatch" /\ op'.ev = "raise") => tasks'[t].pc = "done"
     /\ (tasks[t].client /\ tasks'[t].pc = "sleep") => tasks[t].pc = "dispatch"
     /\ ~tasks[t].client => tasks'[t].pc # "dispatch"

C22_SettledStepsCarryTheirRecord ==
  \A id \in DOMAIN workflows :
    LET wf == workflows[id]
    IN \A i \in 1..Len(wf.steps) :
         /\ wf.steps[i].status = "concluido"
              => /\ wf.steps[i].started_at # None
                 /\ wf.steps[i].completed_at # None
                 /\ wf.steps[i].result # "None"
         /\ wf.steps[i].status = "falhou"
              => /\ wf.steps[i].error # "None"
                 /\ \E k \in 1..Len(wf.logs) :
                      /\ wf.logs[k].level = "error"
                      /\ wf.logs[k].message = <<"falhou", wf.steps[i].name>>

\* A workflow has a completed step followed by a failed one.
C22_Witness ==
  \E id \in DOMAIN workflows :
    /\ Len(workflows[id].steps) >= 2
    /\ workflows[id].steps[1].status = StepStatus.COMPLETED
    /\ workflows[id].steps[2].status = StepStatus.FAILED

\* C23: whenever a workflow's status is completed, failed or cancelled, its
\* completion timestamp is set, whichever way the scheduler ended.
C23_TerminalHasCompletedAt ==
  \A id \in DOMAIN workflows :
    workflows[id].status \in Terminal => workflows[id].completed_at # None

\* A scheduler run that is under way, suspended while it examines a step.
Examining(ts, t) == ts[t].pc \in {"sleep", "dispatch"} /\ ~ts[t].cancelled

\* C24: during one scheduler run the cursor equals the index of the step
\* being examined, never decreases, and stays within 0..len(steps)-1 (0 for a
\* workflow without steps); the run goes through the indices in order, and a
\* step is set to running only after every lower index has been examined
\* (skipped or run) in that run.
C24_CursorFollowsRun ==
  [][/\ \A id \in DOMAIN workflows' :
          LET wf == workflows'[id]
          IN /\ wf.current_step_index >= 0
             /\ wf.current_step_index <= IF wf.steps = <<>> THEN 0 ELSE Len(wf.steps) - 1
     /\ \A t \in 1..Len(tasks) :
          Examining(tasks', t) =>
            LET wf == workflows'[tasks'[t].wf]
                j == tasks'[t].idx
            IN /\ wf.current_step_index = j - 1
               /\ Examining(tasks, t) =>
                    /\ wf.current_step_index >= workflows[tasks[t].wf].current_step_index
                    /\ j >= tasks[t].idx
               /\ StepBegun(t) =>
                    \A k \in 1..(j - 1) :
                      k > tasks[t].idx => k \in tasks'[t].skipped]_vars

\* C25: only the scheduler changes steps: create_workflow, get_workflow,
\* list_workflows, get_stats, get_templates, start_workflow and
\* cancel_workflow leave every field of every existing step as it was; a step
\* that is running when its workflow is cancelled stays running.
C25_OnlySchedulerChangesSteps ==
  [][op'.name # "sched" =>
       \A id \in DOMAIN workflows :
         /\ id \in DOMAIN workflows'
         /\ Len(workflows'[id].steps) >= Len(workflows[id].steps)
         /\ \A i \in 1..Len(workflows[id].steps) :
              workflows'[id].steps[i] = workflows[id].steps[i]]_vars

\* A workflow was cancelled with a step under way, which is still running and
\* carries the remote-task id it was given.
C25_Witness ==
  /\ op.name = "cancel" /\ op.ret
  /\ \E i \in RunningSteps(workflows[op.id]) :
       workflows[op.id].steps[i].subagent_id # "None"

\* C26: a workflow's log is append-only: create, start, cancel and every
\* scheduler step leave the existing entries unchanged and in place and add
\* entries at the end only, so the log never gets shorter.
C26_LogAppendOnly ==
  [][\A id \in DOMAIN workflows :
       /\ id \in DOMAIN workflows'
       /\ Len(workflows'[id].logs) >= Len(workflows[id].logs)
       /\ SubSeq(workflows'[id].logs, 1, Len(workflows[id].logs)) = workflows[id].logs]_vars

\* A scheduler step has added an entry to the log of a workflow that had been
\* created, started, cancelled and started again.
C26_Witness ==
  /\ op.name = "sched"
  /\ WasCancelled(workflows[op.id])
  /\ TimesStarted(workflows[op.id]) >= 2
  /\ workflows[op.id].logs[Len(workflows[op.id].logs)].level \in {"success", "error"}

\* C27: create_workflow gives the new workflow an id that no stored workflow
\* has: it adds exactly one entry, every workflow stored before is still
\* returned by get_workflow as it was, and no operation removes a workflow.
C27_CreateAddsNeverReplaces ==
  [][/\ DOMAIN workflows \subseteq DOMAIN workflows'
     /\ op'.name = "create" =>
          /\ op'.id \notin DOMAIN workflows
          /\ DOMAIN workflows' = DOMAIN workflows \cup {op'.id}
          /\ Cardinality(DOMAIN workflows') = Cardinality(DOMAIN workflows) + 1
          /\ \A id \in DOMAIN workflows : get_workflow(id)' = {workflows[id]}]_vars

\* C28: whenever a workflow's status is running, a scheduler handle for its id
\* is registered in the manager, after any interleaving of start_workflow,
\* cancel_workflow and scheduler steps.
C28_RunningIsRegistered ==
  \A id \in DOMAIN workflows :
    workflows[id].status = WorkflowStatus.RUNNING => id \in DOMAIN _running

\* A workflow of the kind C29 is about: every depends_on empty, started once,
\* never cancelled, and set to completed by the scheduler.
CompletedPlainRun(wf) ==
  /\ wf.status = WorkflowStatus.COMPLETED
  /\ \A i \in 1..Len(wf.steps) : wf.steps[i].depends_on = {}
  /\ TimesStarted(wf) = 1
  /\ ~WasCancelled(wf)

\* C29 as claimed: for a workflow whose steps all have an empty depends_on,
\* started once and never cancelled, with no dispatch failure, once the
\* scheduler has set the status to completed every step is completed and
\* progress is 100.
C29_PlainRunCompletesAll ==
  \A id \in DOMAIN workflows :
    CompletedPlainRun(workflows[id]) =>
      /\ \A i \in 1..Len(workflows[id].steps) :
           workflows[id].steps[i].status = StepStatus.COMPLETED
      /\ progress(workflows[id]) = 100

\* C29 as amended: the same, with progress 100 for a workflow that has at
\* least one step and progress 0 for a workflow without steps.
C29_PlainRunCompletesAllSteps ==
  \A id \in DOMAIN workflows :
    CompletedPlainRun(workflows[id]) =>
      /\ \A i \in 1..Len(workflows[id].steps) :
           workflows[id].steps[i].status = StepStatus.COMPLETED
      /\ progress(workflows[id]) = IF workflows[id].steps = <<>> THEN 0 ELSE 100

\* A run with a dispatch port has completed a workflow of two steps.
C29_Witness ==
  \E id \in DOMAIN workflows :
    /\ CompletedPlainRun(workflows[id])
    /\ Len(workflows[id].steps) = 2
    /\ \A i \in 1..2 : workflows[id].steps[i].subagent_id # "None"

\* C30: a workflow's completion timestamp is set only while its status is
\* completed, failed or cancelled: no pending or running workflow carries one,
\* a workflow started again after an earlier run ended or was cancelled
\* included.
C30_CompletedAtOnlyWhenTerminal ==
  \A id \in DOMAIN workflows :
    workflows[id].status \in {WorkflowStatus.PENDING, WorkflowStatus.RUNNING}
      => workflows[id].completed_at = None

\* C31: no operation assigns the status skipped to a step: in every reachable
\* state each step's status is pending, running, completed or failed.
C31_NoStepIsSkipped ==
  \A id \in DOMAIN workflows :
    \A i \in 1..Len(workflows[id].steps) :
      workflows[id].steps[i].status \in
        {StepStatus.PENDING, StepStatus.RUNNING, StepStatus.COMPLETED, StepStatus.FAILED}

\* A run has ended that passed over a step for unmet dependencies and
\* completed another: the step passed over is pending.
C31_Witness ==
  /\ op.name = "sched"
  /\ tasks[op.task].pc = "done"
  /\ \E i \in tasks[op.task].skipped :
       workflows[op.id].steps[i].status = StepStatus.PENDING
  /\ Completed(workflows[op.id]) >= 1

====
